---- MODULE Spec2Model ----
(***************************************************************************)
(* The world engine of DynamicAbstractionSystem: the spatially partitioned *)
(* double-buffered entity store of src/world/world.py driven by the entity *)
(* kinds of src/world/objects.py and src/tests/test_world.py.              *)
(*                                                                         *)
(* Entities are heap objects: the two buffers hold references (ids) into   *)
(* the heap `ent`, and an update mutates its entity in place.  Positions   *)
(* are integers (Position.x, Position.y are declared int); the float       *)
(* velocity of TestVelocityObject is drawn from integer steps, and the     *)
(* decay of FoodObject is counted in tenths so that decay_rate * (1 +      *)
(* neighbors / 10) stays exact.                                            *)
(***************************************************************************)
EXTENDS Integers, Sequences, FiniteSets, TLC

VARIABLES
    partition_size,   \* World.partition_size
    buffers,          \* World.buffers: <<buffer 0, buffer 1>>, each a dict in key order
    current_buffer,   \* World.current_buffer: 0 or 1
    ent,              \* the heap: entity id -> the entity's attributes
    pc,               \* "idle", or "tick" while tick_all is iterating
    it,               \* tick_all's loop position <<entry of the dict, index in its list>>
    calls,            \* the update calls of the tick in progress or just completed
    start_ent,        \* the heap as it stood when that tick started
    ticks,            \* completed calls of tick_all
    result,           \* the operation that ran last, with what it returned
    host              \* main()'s locals: the clock, the tick timing and the frame's position

vars == <<partition_size, buffers, current_buffer, ent, pc, it, calls, start_ent, ticks, result,
         host>>

----------------------------------------------------------------------------
(* Bounds of the model *)

MaxEntities == 2      \* entities ever constructed
MaxIndexed == 2       \* stored occurrences up to which add_object is called
MaxTicks == 2         \* calls of tick_all
MaxQueryTicks == 1    \* calls of tick_all in the sessions that also query
MaxCoord == 12        \* |x|, |y| of the positions the cell mapping is checked on
MaxTime == 8          \* the clock readings of a session of main(), in clock units
MaxLifeTicks == 204   \* calls of tick_all in the sessions that follow a FoodObject's life
MaxRotation == 720    \* |object_rotation| of calculate_angle_between_food, in degrees

PartitionSizes == {10}                     \* World(partition_size)
DummyPositions == {<<1000, 1000>>}         \* where the host constructs each kind
FoodPositions == {<<8, 0>>}
VelocityPositions == {<<58, 0>>}
Velocities == {<<1, 0>>}                   \* TestVelocityObject.velocity
FastVelocities == {<<70, 0>>}              \* a velocity of more than six cells a tick
GrowOffsets == {<<-9, -1>>}                \* the two random.randint of FoodObject.tick
QueryCircles == {<<8, 0, 50>>, <<0, -1, 5>>, <<8, 0, 0>>}  \* (x, y, radius)
QueryRects == {<<-1, -1, 58, 0>>}               \* (x1, y1, x2, y2)
QueryPoints == {<<3, 4>>}                       \* (x, y) of query_closest_object
ScriptedPositions == {<<25, 25>>}
ScriptedReturns == {"self", "None", "mixed_list", "non_entity", "raise"}
ReadCircles == {<<20, 20, 10>>}
CrowdConfigs == {<<TRUE, 0>>, <<FALSE, 10>>, <<TRUE, 10>>}  \* (can_interact, interaction_radius)
CrowdCircles == {<<25, 25, 0>>}
StoreReturns == {"self", "mixed_list", "object"}
HashSizes == {3, 10}                       \* World(partition_size) of the cell mapping
ReadRects == {<<0, 0, 30, 30>>}
ConfigSizes == {-10, 0}                    \* World(partition_size) that is not positive
AnglePositions == {<<0, 0>>, <<8, 0>>}        \* object_position
AngleOffsets == {<<dx, dy>> : dx \in -1..1, dy \in -1..1}  \* food_position - object_position
AngleRotations == {r \in -MaxRotation..MaxRotation : r % 45 = 0}  \* object_rotation

----------------------------------------------------------------------------
(* Entities *)

BaseEntity(position) ==
    [kind |-> "BaseEntity", position |-> position, interaction_radius |-> 0,
     death |-> FALSE, can_interact |-> FALSE,
     ticked |-> FALSE, rendered |-> FALSE, neighbors |-> 0, decay |-> 0,
     velocity |-> <<0, 0>>, returns |-> "self", entity |-> TRUE]

DummyEntity(position) ==
    [BaseEntity(position) EXCEPT !.kind = "DummyEntity"]

FoodObject(position) ==
    [BaseEntity(position) EXCEPT !.kind = "FoodObject",
                                 !.interaction_radius = 50, !.can_interact = TRUE]

TestVelocityObject(position, velocity) ==
    [BaseEntity(position) EXCEPT !.kind = "TestVelocityObject", !.velocity = velocity,
                                 !.interaction_radius = 50, !.can_interact = TRUE]

\* an object that has a position and is no BaseEntity: no flags, no tick
Object(position) == [BaseEntity(position) EXCEPT !.kind = "object", !.entity = FALSE]

\* A subclass of BaseEntity whose update does nothing but return: itself ("self"),
\* None, a list of itself and a value that is no entity ("mixed_list"), a value that
\* is neither an entity nor a list ("non_entity"), an object with a position that is
\* no entity ("object"), or not at all ("raise").
ScriptedEntity(position, returns) ==
    [BaseEntity(position) EXCEPT !.kind = "ScriptedEntity", !.returns = returns]

ScriptedEntities ==
    {ScriptedEntity(p, r) : p \in ScriptedPositions, r \in ScriptedReturns}

\* a subclass that overrides the attributes BaseEntity.__init__ sets, as the kinds of
\* objects.py do
Configured(e, can_interact, interaction_radius) ==
    [e EXCEPT !.can_interact = can_interact, !.interaction_radius = interaction_radius]

\* entities that all sit at the same coordinates
CrowdEntities ==
    {Configured(ScriptedEntity(p, "self"), c[1], c[2]) :
         p \in ScriptedPositions, c \in CrowdConfigs}

\* entities at every position of a square around the origin
HashEntities == {DummyEntity(<<x, y>>) : x \in -MaxCoord..MaxCoord, y \in -MaxCoord..MaxCoord}

StoreEntities ==
    {ScriptedEntity(p, r) : p \in ScriptedPositions, r \in StoreReturns}

ReadEntities ==
    {FoodObject(p) : p \in FoodPositions}
        \cup {ScriptedEntity(p, r) : p \in ScriptedPositions, r \in {"self", "None"}}

NewEntities ==
    {DummyEntity(p) : p \in DummyPositions}
        \cup {FoodObject(p) : p \in FoodPositions}
        \cup {TestVelocityObject(p, v) : p \in VelocityPositions, v \in Velocities}

\* Entity ids only name heap objects, so the host constructs its entities in the
\* order of this ranking, one of each kind at most; the order in which they are
\* added, which is what tick_all iterates in, stays free.
Rank(e) ==
    CASE e.kind = "DummyEntity" -> 1
      [] e.kind = "FoodObject" -> 2
      [] e.kind = "TestVelocityObject" -> 3
      [] e.kind = "ScriptedEntity" ->
             (CASE e.returns = "self" -> 4
                [] e.returns = "None" -> 5
                [] e.returns = "mixed_list" -> 6
                [] e.returns = "non_entity" -> 7
                [] e.returns = "raise" -> 8
                [] e.returns = "object" -> 9)
                 + (IF e.can_interact THEN 10 ELSE 0)
                 + (IF e.interaction_radius > 0 THEN 20 ELSE 0)

flag_for_death(e) == [e EXCEPT !.death = TRUE]

----------------------------------------------------------------------------
(* The spatial index *)

\* a // b of Python for b # 0: the floor of the quotient, whatever the sign of b
FloorDiv(a, b) == IF b > 0 THEN a \div b ELSE (-a) \div (-b)

\* the quotient truncated toward zero, as int(a / b) gives it
TruncDiv(a, b) == IF a >= 0 THEN a \div b ELSE -((-a) \div b)

\* the cell computed with truncation toward zero
_hash_position_truncating(position, p) ==
    <<TruncDiv(position[1], p), TruncDiv(position[2], p)>>

_hash_position(position, p) == <<FloorDiv(position[1], p), FloorDiv(position[2], p)>>

\* dict.get(cell, []): the list stored under the key, or the empty list
Get(buf, cell) ==
    LET hit == {i \in 1..Len(buf) : buf[i].cell = cell}
    IN  IF hit = {} THEN <<>> ELSE buf[CHOOSE i \in hit : TRUE].objs

\* defaultdict(list)[cell].append(obj): a new key goes last in the key order
Insert(buf, cell, obj) ==
    LET hit == {i \in 1..Len(buf) : buf[i].cell = cell}
    IN  IF hit = {}
        THEN Append(buf, [cell |-> cell, objs |-> <<obj>>])
        ELSE LET i == CHOOSE j \in hit : TRUE
             IN  [buf EXCEPT ![i].objs = Append(@, obj)]

RECURSIVE FlattenOver(_, _)
FlattenOver(lists, idx) ==
    IF idx = {} THEN <<>>
    ELSE LET k == CHOOSE i \in idx : \A j \in idx : i <= j
         IN  lists[k] \o FlattenOver(lists, idx \ {k})

\* the lists of a sequence of lists, one after the other (the empty ones add nothing)
Flatten(lists) == FlattenOver(lists, {k \in 1..Len(lists) : lists[k] # <<>>})

Current == buffers[current_buffer + 1]

get_objects(buf) == Flatten([i \in 1..Len(buf) |-> buf[i].objs])

----------------------------------------------------------------------------
(* Queries: pure functions of one buffer and the heap *)

\* for dx in range(-r, r + 1): for dy in range(-r, r + 1): (cell_x + dx, cell_y + dy)
CellsToCheck(cell_x, cell_y, r) ==
    LET n == IF r >= 0 THEN 2 * r + 1 ELSE 0
    IN  [k \in 1..(n * n) |-> <<cell_x - r + ((k - 1) \div n), cell_y - r + ((k - 1) % n)>>]

\* the query with r = radius // partition_size, the one extra ring of cells left out
query_objects_within_radius_no_margin(buf, e, p, x, y, radius) ==
    LET cell_x == FloorDiv(x, p)
        cell_y == FloorDiv(y, p)
        r == FloorDiv(radius, p)
        cells_to_check == CellsToCheck(cell_x, cell_y, r)
        within(obj) ==
            LET dx == e[obj].position[1] - x
                dy == e[obj].position[2] - y
            IN  dx * dx + dy * dy <= radius * radius
    IN  Flatten([k \in 1..Len(cells_to_check) |->
                    SelectSeq(Get(buf, cells_to_check[k]), within)])

\* the cells the radius query looks up: r = radius // partition_size + 1 around the
\* cell of the point
cells_to_check(p, x, y, radius) ==
    LET cell_x == FloorDiv(x, p)
        cell_y == FloorDiv(y, p)
        r == FloorDiv(radius, p) + 1
    IN  CellsToCheck(cell_x, cell_y, r)

query_objects_within_radius(buf, e, p, x, y, radius) ==
    LET cells == cells_to_check(p, x, y, radius)
        within(obj) ==
            LET dx == e[obj].position[1] - x
                dy == e[obj].position[2] - y
            IN  dx * dx + dy * dy <= radius * radius
    IN  Flatten([k \in 1..Len(cells) |-> SelectSeq(Get(buf, cells[k]), within)])

\* the loops with range(cell_x1, cell_x2), range(cell_y1, cell_y2): the last column
\* and the last row of cells left out
CellsInRange_exclusive(cell_x1, cell_y1, cell_x2, cell_y2) ==
    LET nx == IF cell_x2 > cell_x1 THEN cell_x2 - cell_x1 ELSE 0
        ny == IF cell_y2 > cell_y1 THEN cell_y2 - cell_y1 ELSE 0
    IN  [k \in 1..(nx * ny) |-> <<cell_x1 + ((k - 1) \div ny), cell_y1 + ((k - 1) % ny)>>]

\* for cell_x in range(cell_x1, cell_x2 + 1): for cell_y in range(cell_y1, cell_y2 + 1)
CellsInRange(cell_x1, cell_y1, cell_x2, cell_y2) ==
    LET nx == IF cell_x2 >= cell_x1 THEN cell_x2 - cell_x1 + 1 ELSE 0
        ny == IF cell_y2 >= cell_y1 THEN cell_y2 - cell_y1 + 1 ELSE 0
    IN  [k \in 1..(nx * ny) |-> <<cell_x1 + ((k - 1) \div ny), cell_y1 + ((k - 1) % ny)>>]

query_objects_in_range(buf, e, p, x1, y1, x2, y2) ==
    LET cells == CellsInRange(FloorDiv(x1, p), FloorDiv(y1, p),
                              FloorDiv(x2, p), FloorDiv(y2, p))
        inside(obj) ==
            LET obj_x == e[obj].position[1]
                obj_y == e[obj].position[2]
            IN  x1 <= obj_x /\ obj_x <= x2 /\ y1 <= obj_y /\ obj_y <= y2
    IN  Flatten([k \in 1..Len(cells) |-> SelectSeq(Get(buf, cells[k]), inside)])

None == 0

\* the scan of query_closest_object from the k-th stored occurrence on; closest_obj =
\* None stands for closest_distance = float("inf"), which every distance is below
RECURSIVE ClosestFrom(_, _, _, _, _, _, _)

\* the scan with the comparison turned round: distance > closest_distance
ClosestFrom_farthest(objs, e, x, y, k, closest_obj, closest_distance) ==
    IF k > Len(objs) THEN closest_obj
    ELSE LET dx == e[objs[k]].position[1] - x
             dy == e[objs[k]].position[2] - y
             distance == dx * dx + dy * dy
         IN  IF closest_obj = None \/ distance > closest_distance
             THEN ClosestFrom(objs, e, x, y, k + 1, objs[k], distance)
             ELSE ClosestFrom(objs, e, x, y, k + 1, closest_obj, closest_distance)

\* the scan with a later entity at equal distance replacing the closest so far
ClosestFrom_last(objs, e, x, y, k, closest_obj, closest_distance) ==
    IF k > Len(objs) THEN closest_obj
    ELSE LET dx == e[objs[k]].position[1] - x
             dy == e[objs[k]].position[2] - y
             distance == dx * dx + dy * dy
         IN  IF closest_obj = None \/ distance <= closest_distance
             THEN ClosestFrom(objs, e, x, y, k + 1, objs[k], distance)
             ELSE ClosestFrom(objs, e, x, y, k + 1, closest_obj, closest_distance)

ClosestFrom(objs, e, x, y, k, closest_obj, closest_distance) ==
    IF k > Len(objs) THEN closest_obj
    ELSE LET dx == e[objs[k]].position[1] - x
             dy == e[objs[k]].position[2] - y
             distance == dx * dx + dy * dy
         IN  IF closest_obj = None \/ distance < closest_distance
             THEN ClosestFrom(objs, e, x, y, k + 1, objs[k], distance)
             ELSE ClosestFrom(objs, e, x, y, k + 1, closest_obj, closest_distance)

query_closest_object(buf, e, x, y) ==
    ClosestFrom(get_objects(buf), e, x, y, 1, None, 0)

----------------------------------------------------------------------------
(* The updates of the entity kinds.  An update gets its entity `self`, the  *)
(* neighbor list (<<>> when called without one) and the random draws `rnd`  *)
(* it may consume; it yields the mutated entity, the entities it constructs,*)
(* whether it returns a list ([self] + offspring) or the bare entity, and   *)
(* the shape of what it returns (`returns`, as for ScriptedEntity).         *)

CELL_SIZE == 20
DEFAULT_TPS == 20
\* the clock counts eightieths of a second, so that 1.0 / tps is a whole number of
\* units at both rates main() runs at, DEFAULT_TPS and DEFAULT_TPS * 4
TimePerSecond == DEFAULT_TPS * 4
decay_rate == 1
max_decay == 200

\* random.random() < grow_chance / 100, then two random.randint(-radius, radius)
Randoms == {[grow |-> FALSE, offset |-> <<0, 0>>]}
               \cup {[grow |-> TRUE, offset |-> o] : o \in GrowOffsets}
NoGrow == [grow |-> FALSE, offset |-> <<0, 0>>]

DummyEntity_tick(self, interactable, rnd) ==
    [self |-> [self EXCEPT !.ticked = TRUE], offspring |-> <<>>, list |-> FALSE,
     returns |-> "self"]

\* FoodObject.tick capping its decay without flagging itself
FoodObject_tick_unflagged(self, interactable, rnd) ==
    LET neighbors == Len(interactable)
        decay == IF neighbors > 0
                 THEN self.decay + decay_rate * (10 + neighbors)
                 ELSE self.decay + decay_rate * 10
        expired == decay > max_decay * 10
        me == [self EXCEPT !.neighbors = neighbors,
                           !.decay = IF expired THEN max_decay * 10 ELSE decay]
    IN  [self |-> me, offspring |-> <<>>, list |-> FALSE, returns |-> "self"]

\* decay in tenths: decay_rate * (1 + neighbors / 10) is decay_rate * (10 + neighbors)
FoodObject_tick(self, interactable, rnd) ==
    LET neighbors == Len(interactable)
        decay == IF neighbors > 0
                 THEN self.decay + decay_rate * (10 + neighbors)
                 ELSE self.decay + decay_rate * 10
        expired == decay > max_decay * 10
        me == [self EXCEPT !.neighbors = neighbors,
                           !.decay = IF expired THEN max_decay * 10 ELSE decay,
                           !.death = IF expired THEN TRUE ELSE @]
    IN  IF rnd.grow
        THEN [self |-> me, list |-> TRUE, returns |-> "list",
              offspring |-> <<FoodObject(<<self.position[1] + rnd.offset[1],
                                           self.position[2] + rnd.offset[2]>>)>>]
        ELSE [self |-> me, offspring |-> <<>>, list |-> FALSE, returns |-> "self"]

TestVelocityObject_tick(self, interactable, rnd) ==
    [self |-> [self EXCEPT !.position = <<self.position[1] + self.velocity[1],
                                          self.position[2] + self.velocity[2]>>],
     offspring |-> <<>>, list |-> FALSE, returns |-> "self"]

\* an update that raises leaves its entity as it was
ScriptedEntity_tick(self, interactable, rnd) ==
    [self |-> IF self.returns = "raise" THEN self ELSE [self EXCEPT !.ticked = TRUE],
     offspring |-> IF self.returns = "object" THEN <<Object(self.position)>> ELSE <<>>,
     list |-> self.returns = "mixed_list", returns |-> self.returns]

tick(self, interactable, rnd) ==
    CASE self.kind = "DummyEntity" -> DummyEntity_tick(self, interactable, rnd)
      [] self.kind = "FoodObject" -> FoodObject_tick(self, interactable, rnd)
      [] self.kind = "TestVelocityObject" -> TestVelocityObject_tick(self, interactable, rnd)
      [] self.kind = "ScriptedEntity" -> ScriptedEntity_tick(self, interactable, rnd)

----------------------------------------------------------------------------
(* tick_all *)

\* the list without any occurrence of obj
Remove_all(list, obj) ==
    LET other(o) == o # obj
    IN  SelectSeq(list, other)

\* list.remove(obj): the list without the first occurrence of obj
Remove(list, obj) ==
    LET i == CHOOSE j \in 1..Len(list) :
                 list[j] = obj /\ \A k \in 1..(j - 1) : list[k] # obj
    IN  SubSeq(list, 1, i - 1) \o SubSeq(list, i + 1, Len(list))

Contains(list, obj) == \E j \in 1..Len(list) : list[j] = obj

RECURSIVE InsertAll(_, _, _, _)

\* the loop over a returned list left after its first element
InsertAll_first_only(buf, e, p, items) ==
    IF items = <<>> THEN buf
    ELSE Insert(buf, _hash_position(e[Head(items)].position, p), Head(items))

\* for item in new_obj: insert under the cell of the item's position
InsertAll(buf, e, p, items) ==
    IF items = <<>> THEN buf
    ELSE InsertAll(Insert(buf, _hash_position(e[Head(items)].position, p), Head(items)),
                   e, p, Tail(items))

\* tick_all without `if new_obj is None: continue`, the entity kept as it is
Successors_keeping(obj, new_obj, ids) ==
    CASE new_obj.returns \in {"None", "self"} -> <<obj>>
      [] new_obj.returns \in {"list", "mixed_list"} -> <<obj>> \o ids
      [] new_obj.returns = "object" -> ids
      [] new_obj.returns \in {"non_entity", "raise"} -> <<>>

\* What tick_all inserts for what the update of obj returned, ids being the objects
\* tick_all looking at the death flag once more after the update: an entity that
\* flagged itself is not stored, and neither is what it returned with itself
Successors_unflagged(obj, new_obj, ids) ==
    IF new_obj.self.death THEN <<>>
    ELSE CASE new_obj.returns = "None" -> <<>>
           [] new_obj.returns = "self" -> <<obj>>
           [] new_obj.returns \in {"list", "mixed_list"} -> <<obj>> \o ids
           [] new_obj.returns = "object" -> ids
           [] new_obj.returns \in {"non_entity", "raise"} -> <<>>

\* tick_all storing an entity that moved to another cell under its old cell as well
Successors_twice(obj, new_obj, ids) ==
    CASE new_obj.returns = "None" -> <<>>
      [] new_obj.returns = "self" ->
             IF new_obj.self.velocity # <<0, 0>> THEN <<obj, obj>> ELSE <<obj>>
      [] new_obj.returns \in {"list", "mixed_list"} -> <<obj>> \o ids
      [] new_obj.returns = "object" -> ids
      [] new_obj.returns \in {"non_entity", "raise"} -> <<>>

\* the update constructed: nothing for None, the entity itself, the entities of a
\* list, an element that is no entity being passed over, or whatever else was
\* returned that has a position.
Successors(obj, new_obj, ids) ==
    CASE new_obj.returns = "None" -> <<>>
      [] new_obj.returns = "self" -> <<obj>>
      [] new_obj.returns \in {"list", "mixed_list"} -> <<obj>> \o ids
      [] new_obj.returns = "object" -> ids
      [] new_obj.returns \in {"non_entity", "raise"} -> <<>>

\* The error that ends tick_all at this entity: the one its update raised, or the
\* AttributeError of new_obj.position on a value that is neither a list nor an entity.
Raised(new_obj) ==
    CASE new_obj.returns = "raise" -> "RuntimeError"
      [] new_obj.returns = "non_entity" -> "AttributeError"
      [] OTHER -> "none"

\* the loop body with the neighbor query made for every entity, can_interact or not
Update_always_querying(e, bufs, cb, p, obj, rnd) ==
    LET next_buffer == 1 - cb
        found == query_objects_within_radius(bufs[cb + 1], e, p, e[obj].position[1],
                                             e[obj].position[2], e[obj].interaction_radius)
    IN  IF ~Contains(found, obj)
        THEN [ent |-> e, buffers |-> bufs, calls |-> <<>>, raised |-> "ValueError"]
        ELSE LET interactable == Remove(found, obj)
                 new_obj == tick(e[obj], interactable, rnd)
                 ids == [k \in 1..Len(new_obj.offspring) |-> Len(e) + k]
                 heap == [e EXCEPT ![obj] = new_obj.self] \o new_obj.offspring
                 items == Successors(obj, new_obj, ids)
             IN  [ent |-> heap,
                  buffers |-> [bufs EXCEPT ![next_buffer + 1] = InsertAll(@, heap, p, items)],
                  calls |-> <<[obj |-> obj, with_list |-> TRUE,
                               interactable |-> interactable,
                               position |-> e[obj].position,
                               list |-> new_obj.list, returns |-> new_obj.returns,
                               items |-> items]>>,
                  raised |-> Raised(new_obj)]

\* the loop body with the cell of a successor computed before the update ran
Update_stale_cell(e, bufs, cb, p, obj, rnd) ==
    LET next_buffer == 1 - cb
        found == query_objects_within_radius(bufs[cb + 1], e, p, e[obj].position[1],
                                             e[obj].position[2], e[obj].interaction_radius)
    IN  IF e[obj].can_interact /\ ~Contains(found, obj)
        THEN [ent |-> e, buffers |-> bufs, calls |-> <<>>, raised |-> "ValueError"]
        ELSE LET interactable == IF e[obj].can_interact THEN Remove(found, obj) ELSE <<>>
                 new_obj == tick(e[obj], interactable, rnd)
                 ids == [k \in 1..Len(new_obj.offspring) |-> Len(e) + k]
                 heap == [e EXCEPT ![obj] = new_obj.self] \o new_obj.offspring
                 items == Successors(obj, new_obj, ids)
             IN  [ent |-> heap,
                  buffers |-> [bufs EXCEPT ![next_buffer + 1] =
                                   InsertAll(@, e \o new_obj.offspring, p, items)],
                  calls |-> <<[obj |-> obj, with_list |-> e[obj].can_interact,
                               interactable |-> interactable,
                               position |-> e[obj].position,
                               list |-> new_obj.list, returns |-> new_obj.returns,
                               items |-> items]>>,
                  raised |-> Raised(new_obj)]

\* the loop body with the successors inserted into the buffer being iterated
Update_into_current(e, bufs, cb, p, obj, rnd) ==
    LET found == query_objects_within_radius(bufs[cb + 1], e, p, e[obj].position[1],
                                             e[obj].position[2], e[obj].interaction_radius)
    IN  IF e[obj].can_interact /\ ~Contains(found, obj)
        THEN [ent |-> e, buffers |-> bufs, calls |-> <<>>, raised |-> "ValueError"]
        ELSE LET interactable == IF e[obj].can_interact THEN Remove(found, obj) ELSE <<>>
                 new_obj == tick(e[obj], interactable, rnd)
                 ids == [k \in 1..Len(new_obj.offspring) |-> Len(e) + k]
                 heap == [e EXCEPT ![obj] = new_obj.self] \o new_obj.offspring
                 items == Successors(obj, new_obj, ids)
             IN  [ent |-> heap,
                  buffers |-> [bufs EXCEPT ![cb + 1] = InsertAll(@, heap, p, items)],
                  calls |-> <<[obj |-> obj, with_list |-> e[obj].can_interact,
                               interactable |-> interactable,
                               position |-> e[obj].position,
                               list |-> new_obj.list, returns |-> new_obj.returns,
                               items |-> items]>>,
                  raised |-> Raised(new_obj)]

\* Lines 134-153 of tick_all for an entity that is not skipped: the neighbor query,
\* the update call, and the insertion of what it returned into the next buffer.
Update(e, bufs, cb, p, obj, rnd) ==
    LET next_buffer == 1 - cb
        found == query_objects_within_radius(bufs[cb + 1], e, p, e[obj].position[1],
                                             e[obj].position[2], e[obj].interaction_radius)
    IN  IF e[obj].can_interact /\ ~Contains(found, obj)
        THEN [ent |-> e, buffers |-> bufs, calls |-> <<>>, raised |-> "ValueError"]
        ELSE LET interactable == IF e[obj].can_interact THEN Remove(found, obj) ELSE <<>>
                 new_obj == tick(e[obj], interactable, rnd)
                 ids == [k \in 1..Len(new_obj.offspring) |-> Len(e) + k]
                 heap == [e EXCEPT ![obj] = new_obj.self] \o new_obj.offspring
                 items == Successors(obj, new_obj, ids)
             IN  [ent |-> heap,
                  buffers |-> [bufs EXCEPT ![next_buffer + 1] = InsertAll(@, heap, p, items)],
                  calls |-> <<[obj |-> obj, with_list |-> e[obj].can_interact,
                               interactable |-> interactable,
                               position |-> e[obj].position,
                               list |-> new_obj.list, returns |-> new_obj.returns,
                               items |-> items]>>,
                  raised |-> Raised(new_obj)]

Visit_NoDeathCheck(e, bufs, cb, p, obj, rnd) == Update(e, bufs, cb, p, obj, rnd)

\* The body of tick_all's inner loop for one stored occurrence obj: the heap and the
\* buffers after it, the update call it made (none for a skipped entity) and the
\* error it raised.
Visit(e, bufs, cb, p, obj, rnd) ==
    IF ~e[obj].entity
    THEN [ent |-> e, buffers |-> bufs, calls |-> <<>>, raised |-> "AttributeError"]
    ELSE IF e[obj].death
         THEN [ent |-> e, buffers |-> bufs, calls |-> <<>>, raised |-> "none"]
         ELSE Update(e, bufs, cb, p, obj, rnd)

----------------------------------------------------------------------------
(* The operations *)

Result(op, obj, args, value, raised) ==
    [op |-> op, obj |-> obj, args |-> args, value |-> value, raised |-> raised]

Occurrence(buf, pos) == buf[pos[1]].objs[pos[2]]

\* the loop position after pos: next in the same list, else the next key's list
Advance(buf, pos) ==
    IF pos[2] < Len(buf[pos[1]].objs) THEN <<pos[1], pos[2] + 1>> ELSE <<pos[1] + 1, 1>>

\* main() before its loop: not paused, the default rate, both tick timers at the clock
HostStart ==
    [pc |-> "frame", now |-> 0, current_time |-> 0, last_tick_time |-> 0,
     frame_last_tick_time |-> 0, is_paused |-> FALSE, tps |-> DEFAULT_TPS,
     tick_interval |-> TimePerSecond \div DEFAULT_TPS, ticked |-> 0, rendered |-> 0,
     resumed |-> FALSE, previous_time |-> 0]

Init ==
    /\ partition_size \in PartitionSizes
    /\ buffers = <<<<>>, <<>>>>
    /\ current_buffer = 0
    /\ ent = <<>>
    /\ pc = "idle"
    /\ it = <<1, 1>>
    /\ calls = <<>>
    /\ start_ent = <<>>
    /\ ticks = 0
    /\ result = Result("World", None, <<>>, <<>>, "none")
    /\ host = HostStart

\* The host constructs an entity; it is in no buffer yet.  No tick touches an entity
\* that is in no buffer, so constructing before the first tick reaches every world
\* that constructing later does.
Construct(new) ==
    /\ pc = "idle"
    /\ ticks = 0
    /\ Len(ent) < MaxEntities
    /\ \A i \in 1..Len(ent) : Rank(ent[i]) < Rank(new)
    /\ ent' = Append(ent, new)
    /\ result' = Result("construct", Len(ent) + 1, <<>>, <<>>, "none")
    /\ calls' = <<>>
    /\ start_ent' = <<>>
    /\ UNCHANGED <<host, partition_size, buffers, current_buffer, pc, it, ticks>>

\* the host flags an entity, as test_tick_all_removes_dead does
FlagForDeath(obj) ==
    /\ pc = "idle"
    /\ ~ent[obj].death
    /\ ent' = [ent EXCEPT ![obj] = flag_for_death(@)]
    /\ result' = Result("flag_for_death", obj, <<>>, <<>>, "none")
    /\ calls' = <<>>
    /\ start_ent' = <<>>
    /\ UNCHANGED <<host, partition_size, buffers, current_buffer, pc, it, ticks>>

\* add_object writing to the buffer that is not current
add_object_other_buffer(new_object) ==
    /\ pc = "idle"
    /\ Len(get_objects(Current)) < MaxIndexed
    /\ LET cell == _hash_position(ent[new_object].position, partition_size)
       IN  buffers' = [buffers EXCEPT ![(1 - current_buffer) + 1] = Insert(@, cell, new_object)]
    /\ result' = Result("add_object", new_object, <<>>, <<>>, "none")
    /\ calls' = <<>>
    /\ start_ent' = <<>>
    /\ UNCHANGED <<host, partition_size, current_buffer, ent, pc, it, ticks>>

\* with partition_size = 0 the division of _hash_position raises
add_object(new_object) ==
    /\ pc = "idle"
    /\ Len(get_objects(Current)) < MaxIndexed
    /\ IF partition_size = 0
       THEN /\ buffers' = buffers
            /\ result' = Result("add_object", new_object, <<>>, <<>>, "ZeroDivisionError")
       ELSE /\ LET cell == _hash_position(ent[new_object].position, partition_size)
               IN  buffers' = [buffers EXCEPT
                                   ![current_buffer + 1] = Insert(@, cell, new_object)]
            /\ result' = Result("add_object", new_object, <<>>, <<>>, "none")
    /\ calls' = <<>>
    /\ start_ent' = <<>>
    /\ UNCHANGED <<host, partition_size, current_buffer, ent, pc, it, ticks>>

\* tick_all starting its loop without clearing the buffer that becomes next
TickBegin_without_clear ==
    /\ pc = "idle"
    /\ ticks < MaxTicks
    /\ pc' = "tick"
    /\ it' = <<1, 1>>
    /\ calls' = <<>>
    /\ start_ent' = ent
    /\ result' = Result("tick_all", None, <<>>, <<>>, "running")
    /\ UNCHANGED <<host, partition_size, buffers, current_buffer, ent, ticks>>

\* tick_all up to its loop: the buffer that becomes next is cleared
TickBegin ==
    /\ pc = "idle"
    /\ ticks < MaxTicks
    /\ buffers' = [buffers EXCEPT ![(1 - current_buffer) + 1] = <<>>]
    /\ pc' = "tick"
    /\ it' = <<1, 1>>
    /\ calls' = <<>>
    /\ start_ent' = ent
    /\ result' = Result("tick_all", None, <<>>, <<>>, "running")
    /\ UNCHANGED <<host, partition_size, current_buffer, ent, ticks>>

\* the pass of the inner loop with the swap in a `finally:` of tick_all
TickVisit_swap_on_raise(rnd) ==
    /\ pc = "tick"
    /\ it[1] <= Len(Current)
    /\ LET obj == Occurrence(Current, it)
           v == Visit(ent, buffers, current_buffer, partition_size, obj, rnd)
       IN  /\ Len(v.ent) <= MaxEntities
           /\ ent' = v.ent
           /\ buffers' = v.buffers
           /\ calls' = calls \o v.calls
           /\ IF v.raised = "none"
              THEN /\ it' = Advance(Current, it)
                   /\ UNCHANGED <<pc, result, current_buffer>>
              ELSE /\ pc' = "idle"
                   /\ result' = Result("tick_all", obj, <<>>, <<>>, v.raised)
                   /\ current_buffer' = 1 - current_buffer
                   /\ UNCHANGED it
    /\ UNCHANGED <<host, partition_size, start_ent, ticks>>

\* One pass of the inner loop.  An error raised in it ends tick_all there: the loop
\* position and the swap are left behind, the error is what tick_all raises.
TickVisit(rnd) ==
    /\ pc = "tick"
    /\ it[1] <= Len(Current)
    /\ LET obj == Occurrence(Current, it)
           v == Visit(ent, buffers, current_buffer, partition_size, obj, rnd)
       IN  /\ Len(v.ent) <= MaxEntities
           /\ ent' = v.ent
           /\ buffers' = v.buffers
           /\ calls' = calls \o v.calls
           /\ IF v.raised = "none"
              THEN /\ it' = Advance(Current, it)
                   /\ UNCHANGED <<pc, result>>
              ELSE /\ pc' = "idle"
                   /\ result' = Result("tick_all", obj, <<>>, <<>>, v.raised)
                   /\ UNCHANGED it
    /\ UNCHANGED <<host, partition_size, current_buffer, start_ent, ticks>>

\* tick_all returning without the swap
TickEnd_without_swap ==
    /\ pc = "tick"
    /\ it[1] > Len(Current)
    /\ pc' = "idle"
    /\ ticks' = ticks + 1
    /\ result' = Result("tick_all", None, <<>>, <<>>, "none")
    /\ UNCHANGED <<host, partition_size, buffers, current_buffer, ent, it, calls, start_ent>>

\* the loop is over: the swap
TickEnd ==
    /\ pc = "tick"
    /\ it[1] > Len(Current)
    /\ current_buffer' = 1 - current_buffer
    /\ pc' = "idle"
    /\ ticks' = ticks + 1
    /\ result' = Result("tick_all", None, <<>>, <<>>, "none")
    /\ UNCHANGED <<host, partition_size, buffers, ent, it, calls, start_ent>>

\* the radius query looking the cell of its point up with defaultdict's [cell], which
\* creates the key, instead of .get(cell, [])
QueryRadius_creating_keys(x, y, radius) ==
    /\ pc = "idle"
    /\ result' = Result("query_objects_within_radius", None, <<x, y, radius>>,
                        query_objects_within_radius(Current, ent, partition_size,
                                                    x, y, radius),
                        "none")
    /\ LET cell == _hash_position(<<x, y>>, partition_size)
       IN  buffers' = IF \E i \in 1..Len(Current) : Current[i].cell = cell
                      THEN buffers
                      ELSE [buffers EXCEPT ![current_buffer + 1] =
                                Append(@, [cell |-> cell, objs |-> <<>>])]
    /\ calls' = <<>>
    /\ start_ent' = <<>>
    /\ UNCHANGED <<host, partition_size, current_buffer, ent, pc, it, ticks>>

\* with partition_size = 0 the first division of a query raises
QueryRadius(x, y, radius) ==
    /\ pc = "idle"
    /\ result' =
           IF partition_size = 0
           THEN Result("query_objects_within_radius", None, <<x, y, radius>>, <<>>,
                       "ZeroDivisionError")
           ELSE Result("query_objects_within_radius", None, <<x, y, radius>>,
                       query_objects_within_radius(Current, ent, partition_size,
                                                   x, y, radius),
                       "none")
    /\ calls' = <<>>
    /\ start_ent' = <<>>
    /\ UNCHANGED <<host, partition_size, buffers, current_buffer, ent, pc, it, ticks>>

QueryRange(x1, y1, x2, y2) ==
    /\ pc = "idle"
    /\ result' =
           IF partition_size = 0
           THEN Result("query_objects_in_range", None, <<x1, y1, x2, y2>>, <<>>,
                       "ZeroDivisionError")
           ELSE Result("query_objects_in_range", None, <<x1, y1, x2, y2>>,
                       query_objects_in_range(Current, ent, partition_size,
                                              x1, y1, x2, y2),
                       "none")
    /\ calls' = <<>>
    /\ start_ent' = <<>>
    /\ UNCHANGED <<host, partition_size, buffers, current_buffer, ent, pc, it, ticks>>

QueryClosest(x, y) ==
    /\ pc = "idle"
    /\ result' = Result("query_closest_object", query_closest_object(Current, ent, x, y),
                        <<x, y>>, <<>>, "none")
    /\ calls' = <<>>
    /\ start_ent' = <<>>
    /\ UNCHANGED <<host, partition_size, buffers, current_buffer, ent, pc, it, ticks>>

\* get_objects reading the buffer that is not current
GetObjects_other_buffer ==
    /\ pc = "idle"
    /\ result' = Result("get_objects", None, <<>>,
                        get_objects(buffers[(1 - current_buffer) + 1]), "none")
    /\ calls' = <<>>
    /\ start_ent' = <<>>
    /\ UNCHANGED <<host, partition_size, buffers, current_buffer, ent, pc, it, ticks>>

GetObjects ==
    /\ pc = "idle"
    /\ result' = Result("get_objects", None, <<>>, get_objects(Current), "none")
    /\ calls' = <<>>
    /\ start_ent' = <<>>
    /\ UNCHANGED <<host, partition_size, buffers, current_buffer, ent, pc, it, ticks>>

\* obj.render(camera, screen): the kinds of objects.py draw and change nothing,
\* DummyEntity, and ScriptedEntity like it, records that it was rendered
render(self) ==
    IF self.kind \in {"DummyEntity", "ScriptedEntity"}
    THEN [self EXCEPT !.rendered = TRUE]
    ELSE self

\* render_all: every stored occurrence of the current buffer is rendered, in order
RenderAll ==
    /\ pc = "idle"
    /\ ent' = [obj \in 1..Len(ent) |->
                  IF Contains(get_objects(Current), obj) THEN render(ent[obj]) ELSE ent[obj]]
    /\ result' = Result("render_all", None, <<>>, get_objects(Current), "none")
    /\ calls' = <<>>
    /\ start_ent' = <<>>
    /\ UNCHANGED <<host, partition_size, buffers, current_buffer, pc, it, ticks>>

\* a session of the host that builds the world and advances it
Next ==
    \/ \E new \in NewEntities : Construct(new)
    \/ \E obj \in 1..Len(ent) : FlagForDeath(obj)
    \/ \E obj \in 1..Len(ent) : add_object(obj)
    \/ TickBegin
    \/ \E rnd \in Randoms : TickVisit(rnd)
    \/ TickEnd

Spec == Init /\ [][Next]_vars

\* a session of the host that builds the world, advances it and queries it
QueryNext ==
    \/ \E new \in NewEntities : Construct(new)
    \/ \E obj \in 1..Len(ent) : add_object(obj)
    \/ ticks < MaxQueryTicks /\ TickBegin
    \/ \E rnd \in Randoms : TickVisit(rnd)
    \/ TickEnd
    \/ \E q \in QueryCircles : QueryRadius(q[1], q[2], q[3])
    \/ \E q \in QueryRects : QueryRange(q[1], q[2], q[3], q[4])
    \/ \E q \in QueryPoints : QueryClosest(q[1], q[2])
    \/ GetObjects

SpecQuery == Init /\ [][QueryNext]_vars

\* a session of the host that advances a world in which entities are born and removed
\* and reads it in every way the world offers
ReadNext ==
    \/ \E new \in ReadEntities : Construct(new)
    \/ \E obj \in 1..Len(ent) : add_object(obj)
    \/ ticks < MaxQueryTicks /\ TickBegin
    \/ \E rnd \in Randoms : TickVisit(rnd)
    \/ TickEnd
    \/ \E q \in ReadCircles : QueryRadius(q[1], q[2], q[3])
    \/ \E q \in ReadRects : QueryRange(q[1], q[2], q[3], q[4])
    \/ \E q \in QueryPoints : QueryClosest(q[1], q[2])
    \/ GetObjects
    \/ RenderAll

SpecRead == Init /\ [][ReadNext]_vars

\* a session of the host with entities whose updates return every shape of result
ProtocolNext ==
    \/ \E new \in ScriptedEntities : Construct(new)
    \/ \E obj \in 1..Len(ent) : add_object(obj)
    \/ TickBegin
    \/ TickVisit(NoGrow)
    \/ TickEnd
    \/ GetObjects

SpecProtocol == Init /\ [][ProtocolNext]_vars

\* a session of the host with entities that share their coordinates, advanced and
\* queried
CrowdNext ==
    \/ \E new \in CrowdEntities : Construct(new)
    \/ \E obj \in 1..Len(ent) : add_object(obj)
    \/ TickBegin
    \/ TickVisit(NoGrow)
    \/ TickEnd
    \/ \E q \in CrowdCircles : QueryRadius(q[1], q[2], q[3])
    \/ \E q \in ReadRects : QueryRange(q[1], q[2], q[3], q[4])
    \/ \E q \in QueryPoints : QueryClosest(q[1], q[2])
    \/ GetObjects

SpecCrowd == Init /\ [][CrowdNext]_vars

InitHash ==
    /\ partition_size \in HashSizes
    /\ buffers = <<<<>>, <<>>>>
    /\ current_buffer = 0
    /\ ent = <<>>
    /\ pc = "idle"
    /\ it = <<1, 1>>
    /\ calls = <<>>
    /\ start_ent = <<>>
    /\ ticks = 0
    /\ result = Result("World", None, <<>>, <<>>, "none")
    /\ host = HostStart

\* a session of the host that stores an entity anywhere around the origin and looks
\* for it with the two cell-based queries at the very point
HashNext ==
    \/ \E new \in HashEntities : Construct(new)
    \/ \E obj \in 1..Len(ent) : add_object(obj)
    \/ \E obj \in 1..Len(ent) :
           QueryRadius(ent[obj].position[1], ent[obj].position[2], 0)
    \/ \E obj \in 1..Len(ent) :
           QueryRange(ent[obj].position[1], ent[obj].position[2],
                      ent[obj].position[1], ent[obj].position[2])

SpecHash == InitHash /\ [][HashNext]_vars

\* a session of the host with entities whose updates return themselves, a list with
\* an element that is no entity, or an object that is no entity
StoreNext ==
    \/ \E new \in StoreEntities : Construct(new)
    \/ \E obj \in 1..Len(ent) : add_object(obj)
    \/ TickBegin
    \/ TickVisit(NoGrow)
    \/ TickEnd

SpecStore == Init /\ [][StoreNext]_vars

\* World.__init__ stores partition_size as it is given
InitConfig ==
    /\ partition_size \in ConfigSizes
    /\ buffers = <<<<>>, <<>>>>
    /\ current_buffer = 0
    /\ ent = <<>>
    /\ pc = "idle"
    /\ it = <<1, 1>>
    /\ calls = <<>>
    /\ start_ent = <<>>
    /\ ticks = 0
    /\ result = Result("World", None, <<>>, <<>>, "none")
    /\ host = HostStart

\* the sessions of SpecQuery on a world whose partition_size is not positive
SpecConfig == InitConfig /\ [][QueryNext]_vars

----------------------------------------------------------------------------
(* What the claims speak of *)

Range(seq) == {seq[i] : i \in 1..Len(seq)}

Count(seq, x) == Cardinality({i \in 1..Len(seq) : seq[i] = x})

\* tick_all has just returned normally
JustTicked == pc = "idle" /\ result.op = "tick_all" /\ result.raised = "none"

\* the buffer that is not current: the generation the last tick consumed
Previous == buffers[(1 - current_buffer) + 1]

\* the generation the tick in progress, or just completed, iterates over
Iterated == IF pc = "tick" THEN Current ELSE Previous

CallsOf(obj) == {i \in 1..Len(calls) : calls[i].obj = obj}

\* every stored occurrence lies in the cell of its entity's position
IndexOK(buf) ==
    \A i \in 1..Len(buf) : \A j \in 1..Len(buf[i].objs) :
        buf[i].cell = <<ent[buf[i].objs[j]].position[1] \div partition_size,
                        ent[buf[i].objs[j]].position[2] \div partition_size>>

Orders(n) == {f \in [1..n -> 1..n] : \A i, j \in 1..n : f[i] = f[j] => i = j}

\* tick_all's loop run over the stored occurrences in the given order, from the k-th
\* on, no FoodObject growing
RECURSIVE RunTick(_, _, _, _, _, _)
RunTick(e, bufs, cb, p, order, k) ==
    IF k > Len(order) THEN [ent |-> e, buffers |-> bufs]
    ELSE LET v == Visit(e, bufs, cb, p, order[k], NoGrow)
         IN  RunTick(v.ent, v.buffers, cb, p, order, k + 1)

\* the next generation tick_all produces from the current one in that order: every
\* entity's state, and how often each is stored
Outcome(order) ==
    LET cleared == [buffers EXCEPT ![(1 - current_buffer) + 1] = <<>>]
        r == RunTick(ent, cleared, current_buffer, partition_size, order, 1)
        gen == get_objects(r.buffers[(1 - current_buffer) + 1])
    IN  [ent |-> r.ent, gen |-> [obj \in 1..Len(r.ent) |-> Count(gen, obj)]]

\* C1: whatever the order in which tick_all processes the current generation, the
\* next generation is the same multiset of entities in the same states.
C1_OrderIndependence ==
    pc = "idle" =>
        LET objs == get_objects(Current)
        IN  \A f \in Orders(Len(objs)) :
                Outcome([i \in 1..Len(objs) |-> objs[f[i]]]) = Outcome(objs)

\* the neighbor list the i-th update call of the tick would have been handed had the
\* other entities been as they were when the tick started
IsolatedNeighbors(i) ==
    LET c == calls[i]
        snapshot == [start_ent EXCEPT ![c.obj].position = c.position]
    IN  query_objects_within_radius(Iterated, snapshot, partition_size, c.position[1],
                                    c.position[2], start_ent[c.obj].interaction_radius)

\* C2: the neighbor list handed to an update reflects the generation as it stood when
\* the tick started, not what an update made earlier in the same tick changed.
C2_GenerationIsolation ==
    \A i \in 1..Len(calls) :
        calls[i].with_list =>
            /\ Contains(IsolatedNeighbors(i), calls[i].obj)
            /\ calls[i].interactable = Remove(IsolatedNeighbors(i), calls[i].obj)

\* C3: an entity flagged before tick_all is not updated in that tick and is not in
\* get_objects() when it returns; an entity not flagged whose update returned it is.
C3_DeathRemoval ==
    JustTicked =>
        \A obj \in Range(get_objects(Previous)) :
            /\ start_ent[obj].death =>
                   CallsOf(obj) = {} /\ obj \notin Range(get_objects(Current))
            /\ (~start_ent[obj].death /\ \E i \in CallsOf(obj) : obj \in Range(calls[i].items))
                   => obj \in Range(get_objects(Current))

C3_Witness ==
    /\ JustTicked
    /\ \E dead, live \in Range(get_objects(Previous)) :
           /\ start_ent[dead].death
           /\ dead \notin Range(get_objects(Current))
           /\ ~start_ent[live].death
           /\ live \in Range(get_objects(Current))

\* C4: tick_all calls the update of every entity of the current generation whose
\* death flag is clear exactly once.
C4_TickedExactlyOnce ==
    JustTicked =>
        \A obj \in Range(get_objects(Previous)) :
            ~start_ent[obj].death => Cardinality(CallsOf(obj)) = 1

\* C5: between operations every entity stored in a cell of the current generation
\* has its position in that cell.
C5_IndexInvariant == pc = "idle" => IndexOK(Current)

SquaredDistance(obj, x, y) ==
    (ent[obj].position[1] - x) * (ent[obj].position[1] - x)
        + (ent[obj].position[2] - y) * (ent[obj].position[2] - y)

\* C6: with every entity indexed under the cell of its position, the radius query
\* returns the entities of the current generation at squared distance <= radius^2 from
\* the point, each as often as it is stored, and no other.
C6_RadiusCorrectness ==
    (result.op = "query_objects_within_radius" /\ IndexOK(Current)) =>
        \A obj \in 1..Len(ent) :
            Count(result.value, obj) =
                IF SquaredDistance(obj, result.args[1], result.args[2])
                       <= result.args[3] * result.args[3]
                THEN Count(get_objects(Current), obj)
                ELSE 0

\* a query at a point of negative coordinates finds an entity of a neighbouring cell
\* of negative coordinates and leaves out an entity that is too far
C6_Witness ==
    /\ result.op = "query_objects_within_radius"
    /\ IndexOK(Current)
    /\ result.args[2] < 0
    /\ \E obj \in Range(result.value) :
           /\ ent[obj].position[1] < 0
           /\ ent[obj].position[1] \div partition_size # result.args[1] \div partition_size
    /\ \E obj \in Range(get_objects(Current)) : obj \notin Range(result.value)

\* C7: with every entity indexed under the cell of its position, the rectangle query
\* returns the entities of the current generation with x1 <= x <= x2 and
\* y1 <= y <= y2, each as often as it is stored, and no other.
C7_RangeCorrectness ==
    (result.op = "query_objects_in_range" /\ IndexOK(Current)) =>
        \A obj \in 1..Len(ent) :
            Count(result.value, obj) =
                IF /\ result.args[1] <= ent[obj].position[1]
                   /\ ent[obj].position[1] <= result.args[3]
                   /\ result.args[2] <= ent[obj].position[2]
                   /\ ent[obj].position[2] <= result.args[4]
                THEN Count(get_objects(Current), obj)
                ELSE 0

\* a rectangle with a negative corner holds an entity on its far edge and leaves out
\* another entity
C7_Witness ==
    /\ result.op = "query_objects_in_range"
    /\ IndexOK(Current)
    /\ result.args[1] < 0
    /\ \E obj \in Range(result.value) :
           ent[obj].position = <<result.args[3], result.args[4]>>
    /\ \E obj \in Range(get_objects(Current)) : obj \notin Range(result.value)

\* C8: query_closest_object returns None exactly when the current generation is
\* empty, and otherwise an entity of it at minimal squared distance from the point.
C8_ClosestCorrectness ==
    result.op = "query_closest_object" =>
        /\ result.obj = None <=> get_objects(Current) = <<>>
        /\ result.obj # None =>
               /\ result.obj \in Range(get_objects(Current))
               /\ \A other \in Range(get_objects(Current)) :
                      SquaredDistance(result.obj, result.args[1], result.args[2])
                          <= SquaredDistance(other, result.args[1], result.args[2])

\* the closest entity is not the one the scan meets first, and another is farther
C8_Witness ==
    /\ result.op = "query_closest_object"
    /\ result.obj # None
    /\ result.obj # get_objects(Current)[1]
    /\ \E other \in Range(get_objects(Current)) :
           SquaredDistance(result.obj, result.args[1], result.args[2])
               < SquaredDistance(other, result.args[1], result.args[2])

\* C9: add_object(e) appends e to the list of the cell of e's position in the current
\* buffer and changes nothing else: e is in get_objects(), what was there still is,
\* the other buffer and current_buffer are as before.
C9_AddObjectStores ==
    [][result'.op = "add_object" =>
          LET obj == result'.obj
              cell == <<ent[obj].position[1] \div partition_size,
                        ent[obj].position[2] \div partition_size>>
              before == get_objects(Current)
              after == get_objects(buffers'[current_buffer' + 1])
          IN  /\ Get(buffers'[current_buffer + 1], cell) = Append(Get(Current, cell), obj)
              /\ obj \in Range(after)
              /\ \A o \in 1..Len(ent) :
                     Count(after, o) = Count(before, o) + (IF o = obj THEN 1 ELSE 0)
              /\ buffers'[(1 - current_buffer) + 1] = Previous
              /\ current_buffer' = current_buffer
              /\ ent' = ent
      ]_vars

\* an entity added between two ticks, next to one already stored, while the other
\* buffer still holds the generation before
C9_Witness ==
    /\ result.op = "add_object"
    /\ ticks >= 1
    /\ Len(get_objects(Current)) >= 2
    /\ Previous # <<>>
    /\ result.obj \in Range(get_objects(Current))

\* World(partition_size=10, world_size=(100, 100)) of the tests' fixture
world_size == <<100, 100>>

\* outside the declared extent, however the extent is anchored
OutOfBounds(position) ==
    \/ position[1] > world_size[1] \/ position[1] < -world_size[1]
    \/ position[2] > world_size[2] \/ position[2] < -world_size[2]

\* C10: add_object of an entity positioned outside the world extent raises ValueError.
C10_OutOfBoundsRejected ==
    (result.op = "add_object" /\ OutOfBounds(ent[result.obj].position))
        => result.raised = "ValueError"

\* C11: the neighbor list handed to the update of an entity with can_interact set
\* never contains that entity, other entities at distance 0 or the entity being
\* stored more than once notwithstanding.
C11_SelfExclusion ==
    \A i \in 1..Len(calls) :
        calls[i].with_list => ~Contains(calls[i].interactable, calls[i].obj)

\* how often obj is among the entities inserted for the first n update calls
RECURSIVE InsertedCount(_, _)
InsertedCount(obj, n) ==
    IF n = 0 THEN 0 ELSE InsertedCount(obj, n - 1) + Count(calls[n].items, obj)

\* C12: when an update returns a list such as [self, offspring], every entity of the
\* list is in get_objects() after the tick, stored under the cell of its own position;
\* the engine inserts every successor it is given, however many.
C12_ReproductionFanOut ==
    JustTicked =>
        /\ \A i \in 1..Len(calls) :
               calls[i].list =>
                   \A k \in 1..Len(calls[i].items) :
                       LET item == calls[i].items[k]
                           cell == <<ent[item].position[1] \div partition_size,
                                     ent[item].position[2] \div partition_size>>
                       IN  /\ item \in Range(get_objects(Current))
                           /\ item \in Range(Get(Current, cell))
        /\ \A obj \in 1..Len(ent) :
               Count(get_objects(Current), obj) = InsertedCount(obj, Len(calls))

\* a tick in which an update returned itself and an offspring it constructed
C12_Witness ==
    /\ JustTicked
    /\ \E i \in 1..Len(calls) :
           /\ calls[i].list
           /\ Len(calls[i].items) = 2
           /\ calls[i].items[2] \notin Range(get_objects(Previous))
           /\ calls[i].items[2] \in Range(get_objects(Current))

\* C13: an entity whose update returned None is not inserted into the next generation
\* and is not in get_objects() after the tick; the engine keeps no entity that no
\* update of the tick returned.
C13_RemovalByOmission ==
    JustTicked =>
        /\ \A i \in 1..Len(calls) :
               calls[i].returns = "None" =>
                   /\ calls[i].items = <<>>
                   /\ calls[i].obj \notin Range(get_objects(Current))
        /\ \A obj \in Range(get_objects(Current)) :
               \E i \in 1..Len(calls) : obj \in Range(calls[i].items)

\* a tick that removed an entity whose update returned None and kept another
C13_Witness ==
    /\ JustTicked
    /\ \E i \in 1..Len(calls) :
           /\ calls[i].returns = "None"
           /\ calls[i].obj \in Range(get_objects(Previous))
           /\ calls[i].obj \notin Range(get_objects(Current))
    /\ get_objects(Current) # <<>>

\* tick_all has just raised
TickFailed == pc = "idle" /\ result.op = "tick_all" /\ result.raised # "none"

\* C14: when an update raises during tick_all, tick_all raises that error,
\* current_buffer is as it was, and get_objects() returns the entities it returned
\* before the tick started: no step of tick_all from its start to the error changes
\* current_buffer or what get_objects() returns.
C14_FailedTickNotSwapped ==
    [][(pc' = "tick" \/ (pc = "tick" /\ TickFailed')) =>
          /\ current_buffer' = current_buffer
          /\ get_objects(buffers'[current_buffer' + 1]) = get_objects(Current)
          /\ TickFailed' =>
                 /\ result'.raised \in {"RuntimeError", "AttributeError", "ValueError"}
                 /\ calls'[Len(calls')].returns = "raise" => result'.raised = "RuntimeError"
      ]_vars

\* a tick that failed at its second entity, the first one already updated and
\* inserted into the next buffer
C14_Witness ==
    /\ TickFailed
    /\ Len(calls) = 2
    /\ calls[2].returns = "raise"
    /\ calls[1].items # <<>>
    /\ Previous # <<>>
    /\ Len(get_objects(Current)) = 2

\* what an update may return: None, an entity, or a list of entities only
WellFormed == {"None", "self", "list"}

\* C15: whenever an update returns a value that is neither None, nor an entity, nor a
\* list of entities only, tick_all raises instead of completing the tick.
C15_MalformedSurfaced ==
    JustTicked => \A i \in 1..Len(calls) : calls[i].returns \in WellFormed

\* C16: constructing a World with partition_size <= 0 fails, so that no World with a
\* partition_size that is not positive ever accepts add_object, tick_all or a query.
C16_ConfigurationError ==
    partition_size <= 0 => (result.op = "World" /\ result.raised # "none")

Queries ==
    {"query_objects_within_radius", "query_objects_in_range", "query_closest_object",
     "get_objects"}

\* what the query that ran last returns when it is called again with the same arguments
Again ==
    CASE result.op = "query_objects_within_radius" ->
             Result(result.op, None, result.args,
                    query_objects_within_radius(Current, ent, partition_size, result.args[1],
                                                result.args[2], result.args[3]),
                    "none")
      [] result.op = "query_objects_in_range" ->
             Result(result.op, None, result.args,
                    query_objects_in_range(Current, ent, partition_size, result.args[1],
                                           result.args[2], result.args[3], result.args[4]),
                    "none")
      [] result.op = "query_closest_object" ->
             Result(result.op,
                    query_closest_object(Current, ent, result.args[1], result.args[2]),
                    result.args, <<>>, "none")
      [] result.op = "get_objects" ->
             Result(result.op, None, <<>>, get_objects(Current), "none")
      [] OTHER -> result

\* C17: the three queries and get_objects leave both buffers, their cell keys included,
\* and current_buffer as they were, so that the same call made again at once returns
\* the same result.
C17_QueriesReadOnly ==
    /\ [][result'.op \in Queries =>
             buffers' = buffers /\ current_buffer' = current_buffer]_vars
    /\ [](result.op \in Queries => Again = result)

\* a radius query that found an entity after a tick, having looked into cells that
\* hold nothing: no buffer has a key without entities
C17_Witness ==
    /\ result.op = "query_objects_within_radius"
    /\ result.value # <<>>
    /\ ticks >= 1
    /\ Current # <<>> /\ Previous # <<>>
    /\ \A b \in 1..2 : \A i \in 1..Len(buffers[b]) : buffers[b][i].objs # <<>>
    /\ \A i \in 1..Len(Current) :
           Current[i].cell # <<result.args[1] \div partition_size,
                               result.args[2] \div partition_size>>

\* the entities the update call that the step made, if it made one, had inserted
NewItems(before, after) == IF Len(after) > Len(before) THEN after[Len(after)].items ELSE <<>>

\* C18: during tick_all the cell lists of the current buffer are neither appended to
\* nor removed from, and every successor goes to the next buffer; the queries,
\* get_objects and render_all read the buffer that current_buffer selects and no other.
C18_BufferDiscipline ==
    /\ [][/\ (pc = "tick" \/ pc' = "tick") =>
                 buffers'[current_buffer + 1] = buffers[current_buffer + 1]
          /\ (pc = "tick" /\ current_buffer' = current_buffer) =>
                 \A obj \in 1..Len(ent') :
                     Count(get_objects(buffers'[(1 - current_buffer) + 1]), obj)
                         = Count(get_objects(Previous), obj)
                               + Count(NewItems(calls, calls'), obj)
          /\ result'.op = "render_all" =>
                 \A obj \in 1..Len(ent) :
                     ent'[obj] # ent[obj] => obj \in Range(get_objects(Current))
         ]_vars
    /\ [](/\ result.op \in {"query_objects_within_radius", "query_objects_in_range",
                            "get_objects", "render_all"}
              => Range(result.value) \subseteq Range(get_objects(Current))
          /\ (result.op = "query_closest_object" /\ result.obj # None)
              => result.obj \in Range(get_objects(Current)))

\* a radius query after a tick that removed an entity lying in the circle: the buffer
\* that is not current still holds it, and the query does not return it
C18_Witness ==
    /\ result.op = "query_objects_within_radius"
    /\ result.value # <<>>
    /\ \E obj \in Range(get_objects(Previous)) :
           /\ obj \notin Range(get_objects(Current))
           /\ SquaredDistance(obj, result.args[1], result.args[2])
                  <= result.args[3] * result.args[3]
           /\ obj \notin Range(result.value)

\* how often obj is stored in the lists of the first n keys of a buffer
RECURSIVE StoredCount(_, _, _)
StoredCount(buf, obj, n) ==
    IF n = 0 THEN 0 ELSE StoredCount(buf, obj, n - 1) + Count(buf[n].objs, obj)

\* C19: get_objects() returns every entity of every cell of the current buffer once
\* per stored occurrence, and no entity that is only in the other buffer.
C19_GetObjectsMultiset ==
    result.op = "get_objects" =>
        \A obj \in 1..Len(ent) :
            Count(result.value, obj) = StoredCount(Current, obj, Len(Current))

\* get_objects() returning an entity twice, once per stored occurrence, while the
\* other buffer holds an entity that the current one does not
C19_Witness ==
    /\ result.op = "get_objects"
    /\ \E obj \in 1..Len(ent) : Count(result.value, obj) = 2
    /\ \E obj \in 1..Len(ent) :
           /\ StoredCount(Previous, obj, Len(Previous)) > 0
           /\ StoredCount(Current, obj, Len(Current)) = 0
           /\ obj \notin Range(result.value)

\* C20: the neighbor list handed to the update of an entity with can_interact set
\* consists of entities of the current generation, other than itself, that are within
\* interaction_radius of its position and whose death flag is not set.  Stated of the
\* update call made last, whose neighbors are still as they were when it was made,
\* and of the neighbors other than the entity itself.
C20_NeighborsLive ==
    calls # <<>> =>
        LET c == calls[Len(calls)]
        IN  c.with_list =>
                \A n \in Range(c.interactable) :
                    n # c.obj =>
                        /\ n \in Range(get_objects(Iterated))
                        /\ SquaredDistance(n, c.position[1], c.position[2])
                               <= ent[c.obj].interaction_radius * ent[c.obj].interaction_radius
                        /\ ~ent[n].death

\* what the radius query of the update call made last returned: the entity was then
\* at the position the call records, the others are as they were
FoundLast ==
    LET c == calls[Len(calls)]
    IN  query_objects_within_radius(Iterated, [ent EXCEPT ![c.obj].position = c.position],
                                    partition_size, c.position[1], c.position[2],
                                    ent[c.obj].interaction_radius)

\* C21: the neighbor list is the radius query's result less exactly one occurrence of
\* the entity being updated; a distinct entity at the same coordinates stays in it.
C21_ExclusionByIdentity ==
    calls # <<>> =>
        LET c == calls[Len(calls)]
        IN  c.with_list =>
                \A n \in 1..Len(ent) :
                    Count(c.interactable, n)
                        = Count(FoundLast, n) - (IF n = c.obj THEN 1 ELSE 0)

\* an update handed a distinct entity that sits at its own coordinates
C21_Witness ==
    /\ calls # <<>>
    /\ LET c == calls[Len(calls)]
       IN  /\ c.with_list
           /\ \E n \in Range(c.interactable) : n # c.obj /\ ent[n].position = c.position
           /\ Count(FoundLast, c.obj) = 1
           /\ c.obj \notin Range(c.interactable)

\* C22: the update of an entity whose interaction_radius is 0 is never handed a
\* neighbor list that is not empty, can_interact set and other entities at its
\* coordinates notwithstanding.  Stated of the neighbors other than the entity itself.
C22_RadiusZeroNoNeighbors ==
    \A i \in 1..Len(calls) :
        ent[calls[i].obj].interaction_radius = 0 =>
            \A n \in Range(calls[i].interactable) : n = calls[i].obj

\* C23: an entity whose can_interact flag is false is updated by tick() without an
\* argument, no radius query made for it, whatever its interaction_radius.
C23_NoInteractionNoQuery ==
    \A i \in 1..Len(calls) :
        ~ent[calls[i].obj].can_interact =>
            ~calls[i].with_list /\ calls[i].interactable = <<>>

\* the update of an entity with a radius but without can_interact, another entity
\* sitting at its coordinates
C23_Witness ==
    \E i \in 1..Len(calls) :
        /\ ~ent[calls[i].obj].can_interact
        /\ ent[calls[i].obj].interaction_radius > 0
        /\ \E n \in Range(get_objects(Iterated)) :
               n # calls[i].obj /\ ent[n].position = calls[i].position

\* the buffer the tick in progress, or just completed, writes its successors to
Written == IF pc = "tick" THEN Previous ELSE Current

CellOf(position) == <<position[1] \div partition_size, position[2] \div partition_size>>

\* C24: an entity that moved during its own update and returned itself is stored in
\* the next generation under the cell of the position it has after the update, and
\* no step of the tick changes the generation being iterated.
C24_RehashOnMove ==
    /\ []((calls # <<>> /\ (pc = "tick" \/ JustTicked)) =>
              LET c == calls[Len(calls)]
              IN  c.obj \in Range(c.items) =>
                      c.obj \in Range(Get(Written, CellOf(ent[c.obj].position))))
    /\ [][pc = "tick" => buffers'[current_buffer + 1] = buffers[current_buffer + 1]]_vars

\* an update that carried its entity over a cell border: the entity is stored under
\* the new cell in the buffer being written and still under the old one in the
\* generation being iterated
C24_Witness ==
    /\ calls # <<>>
    /\ pc = "tick"
    /\ LET c == calls[Len(calls)]
       IN  /\ c.obj \in Range(c.items)
           /\ CellOf(c.position) # CellOf(ent[c.obj].position)
           /\ c.obj \in Range(Get(Written, CellOf(ent[c.obj].position)))
           /\ c.obj \in Range(Get(Iterated, CellOf(c.position)))
           /\ c.obj \notin Range(Get(Iterated, CellOf(ent[c.obj].position)))

\* C25: for every position, of negative coordinates or not, and partition_size p > 0
\* the cell (cx, cy) an entity is stored under has cx*p <= x < (cx+1)*p and
\* cy*p <= y < (cy+1)*p, and the radius query and the rectangle query map their
\* arguments to cells the same way: asked at the very point, each finds the entity.
C25_CellFloors ==
    /\ \A i \in 1..Len(Current) : \A j \in 1..Len(Current[i].objs) :
           LET position == ent[Current[i].objs[j]].position
               cell == Current[i].cell
           IN  /\ cell[1] * partition_size <= position[1]
               /\ position[1] < (cell[1] + 1) * partition_size
               /\ cell[2] * partition_size <= position[2]
               /\ position[2] < (cell[2] + 1) * partition_size
    /\ result.op \in {"query_objects_within_radius", "query_objects_in_range"} =>
           \A obj \in Range(get_objects(Current)) :
               ent[obj].position = <<result.args[1], result.args[2]>> =>
                   Count(result.value, obj) = Count(get_objects(Current), obj)

\* the rectangle query finding an entity stored at negative coordinates that are no
\* multiple of partition_size
C25_Witness ==
    /\ result.op = "query_objects_in_range"
    /\ result.args[1] < 0 /\ result.args[2] < 0
    /\ result.args[1] % partition_size # 0
    /\ result.args[2] % partition_size # 0
    /\ result.value # <<>>
    /\ Current[1].cell[1] < -1

\* C26: whatever add_object and tick_all did, every element of either buffer is an
\* entity; an element of a returned list that is no entity is not inserted, and the
\* entities of that list all are.
C26_OnlyEntitiesStored ==
    /\ \A b \in 1..2 : \A i \in 1..Len(buffers[b]) : \A j \in 1..Len(buffers[b][i].objs) :
           ent[buffers[b][i].objs[j]].entity
    /\ JustTicked =>
           \A i \in 1..Len(calls) :
               calls[i].returns = "mixed_list" =>
                   /\ calls[i].items = <<calls[i].obj>>
                   /\ calls[i].obj \in Range(get_objects(Current))

\* C27: current_buffer is always 0 or 1; a tick_all that completes flips it exactly
\* once, when the last entity has been processed, so that it is 0 after an even
\* number of completed ticks and 1 after an odd one; nothing else changes it,
\* add_object and the queries in particular.
C27_Swap ==
    /\ [](current_buffer \in {0, 1} /\ current_buffer = ticks % 2)
    /\ [][/\ current_buffer' # current_buffer =>
                 /\ pc = "tick" /\ it[1] > Len(Current)
                 /\ pc' = "idle" /\ result'.op = "tick_all" /\ result'.raised = "none"
                 /\ current_buffer' = 1 - current_buffer
          /\ (pc = "tick" /\ pc' = "idle" /\ result'.raised = "none") =>
                 current_buffer' = 1 - current_buffer
          /\ (result'.op = "add_object" \/ result'.op \in Queries) =>
                 current_buffer' = current_buffer
         ]_vars

\* a query made after two completed ticks of a world that holds entities
C27_Witness ==
    /\ ticks = 2
    /\ current_buffer = 0
    /\ result.op \in Queries
    /\ get_objects(Current) # <<>>
    /\ get_objects(Previous) # <<>>

\* C28: when tick_all has returned, the current generation holds the successors
\* inserted during that tick, each as often as it was inserted, and nothing else:
\* nothing that the buffer held two generations earlier is left in it.
C28_NextBufferCleared ==
    JustTicked =>
        \A obj \in 1..Len(ent) :
            Count(get_objects(Current), obj) = InsertedCount(obj, Len(calls))

\* the second tick of a world one of whose entities was flagged in between: the
\* entity was in the generation the tick consumed, and is in no cell of the buffer
\* that is current again
C28_Witness ==
    /\ JustTicked
    /\ ticks = 2
    /\ get_objects(Current) # <<>>
    /\ \E obj \in Range(get_objects(Previous)) :
           /\ ent[obj].death
           /\ CallsOf(obj) = {}
           /\ obj \notin Range(get_objects(Current))

\* C29: once tick_all has returned, the buffer that was current is cleared: between
\* ticks the buffer that is not current holds no entities.
C29_NonCurrentEmpty == pc = "idle" => get_objects(Previous) = <<>>

----------------------------------------------------------------------------
(* The host: main()'s frame loop.  The clock is read where main() reads it,  *)
(* and between two readings any whole amount of time may have passed.        *)

world == <<partition_size, buffers, current_buffer, ent, pc, it, calls, start_ent, ticks, result>>

HostEvents == {"none", "K_SPACE", "KEYDOWN_LSHIFT", "KEYUP_LSHIFT"}

\* the world main() builds and setup() fills: a FoodObject and a TestVelocityObject
\* (the DefaultCell of setup() takes a rotation this world.py does not define)
InitHost ==
    /\ partition_size = CELL_SIZE
    /\ ent \in {<<FoodObject(f), TestVelocityObject(p, v)>> :
                   f \in FoodPositions, p \in VelocityPositions, v \in Velocities}
    /\ buffers = <<InsertAll(<<>>, ent, partition_size, <<1, 2>>), <<>>>>
    /\ current_buffer = 0
    /\ pc = "idle"
    /\ it = <<1, 1>>
    /\ calls = <<>>
    /\ start_ent = <<>>
    /\ ticks = 0
    /\ result = Result("add_object", 2, <<>>, <<>>, "none")
    /\ host = HostStart

\* the top of a frame: tick_interval from the rate as it stands, then the events
HostFrame(event) ==
    /\ host.pc = "frame"
    /\ host' = [host EXCEPT !.pc = "timing",
                            !.tick_interval = TimePerSecond \div host.tps,
                            !.is_paused = IF event = "K_SPACE" THEN ~@ ELSE @,
                            !.tps = CASE event = "KEYDOWN_LSHIFT" -> DEFAULT_TPS * 4
                                      [] event = "KEYUP_LSHIFT" -> DEFAULT_TPS
                                      [] OTHER -> @,
                            !.ticked = 0,
                            !.rendered = 0,
                            !.resumed = host.is_paused]
    /\ UNCHANGED world

\* the paused branch leaving last_tick_time as it is
HostClock_keeping_timer(elapsed) ==
    /\ host.pc = "timing"
    /\ host.now + elapsed <= MaxTime
    /\ host' = IF ~host.is_paused
               THEN [host EXCEPT !.now = @ + elapsed,
                                 !.previous_time = host.now,
                                 !.current_time = host.now + elapsed,
                                 !.frame_last_tick_time = host.last_tick_time,
                                 !.pc = "loop"]
               ELSE [host EXCEPT !.now = @ + elapsed,
                                 !.previous_time = host.now,
                                 !.pc = "render"]
    /\ UNCHANGED world

\* `if not is_paused:` and the reading of the clock on either side: current_time for
\* the catch-up loop, or the timer reset to the clock while paused.  previous_time
\* keeps the reading of the frame before, resumed whether that frame was paused.
HostClock(elapsed) ==
    /\ host.pc = "timing"
    /\ host.now + elapsed <= MaxTime
    /\ host' = IF ~host.is_paused
               THEN [host EXCEPT !.now = @ + elapsed,
                                 !.previous_time = host.now,
                                 !.current_time = host.now + elapsed,
                                 !.frame_last_tick_time = host.last_tick_time,
                                 !.pc = "loop"]
               ELSE [host EXCEPT !.now = @ + elapsed,
                                 !.previous_time = host.now,
                                 !.last_tick_time = host.now + elapsed,
                                 !.pc = "render"]
    /\ UNCHANGED world

\* the loop setting its timer to the clock instead of moving it on by one interval
HostLoopPass_resetting ==
    /\ host.pc = "loop"
    /\ host.current_time - host.last_tick_time >= host.tick_interval
    /\ host' = [host EXCEPT !.last_tick_time = host.current_time,
                            !.ticked = @ + 1]

\* main()'s side of one pass of `while current_time - last_tick_time >= tick_interval:`:
\* the timer moves on by one interval and the pass is counted
HostLoopPass ==
    /\ host.pc = "loop"
    /\ host.current_time - host.last_tick_time >= host.tick_interval
    /\ host' = [host EXCEPT !.last_tick_time = @ + host.tick_interval,
                            !.ticked = @ + 1]

\* one pass of the catch-up loop: HostLoopPass, and world.tick_all() runs (the
\* get_objects calls and the counters of the body change nothing the world or the
\* timing reads)
HostCatchUp ==
    /\ HostLoopPass
    /\ LET cleared == [buffers EXCEPT ![(1 - current_buffer) + 1] = <<>>]
           r == RunTick(ent, cleared, current_buffer, partition_size,
                        get_objects(Current), 1)
       IN  /\ ent' = r.ent
           /\ buffers' = r.buffers
    /\ current_buffer' = 1 - current_buffer
    /\ ticks' = ticks + 1
    /\ calls' = <<>>
    /\ start_ent' = ent
    /\ result' = Result("tick_all", None, <<>>, <<>>, "none")
    /\ UNCHANGED <<partition_size, pc, it>>

\* the loop's condition is false: on to the rest of the frame
HostCaughtUp ==
    /\ host.pc = "loop"
    /\ host.current_time - host.last_tick_time < host.tick_interval
    /\ host' = [host EXCEPT !.pc = "render"]
    /\ UNCHANGED world

\* world.render_all(camera, screen), and the frame is over
HostRender ==
    /\ host.pc = "render"
    /\ pc = "idle"
    /\ ent' = [obj \in 1..Len(ent) |->
                  IF Contains(get_objects(Current), obj) THEN render(ent[obj]) ELSE ent[obj]]
    /\ result' = Result("render_all", None, <<>>, get_objects(Current), "none")
    /\ calls' = <<>>
    /\ start_ent' = <<>>
    /\ host' = [host EXCEPT !.pc = "frame", !.rendered = @ + 1]
    /\ UNCHANGED <<partition_size, buffers, current_buffer, pc, it, ticks>>

HostNext ==
    \/ \E event \in HostEvents : HostFrame(event)
    \/ \E elapsed \in 0..MaxTime : HostClock(elapsed)
    \/ HostCatchUp
    \/ HostCaughtUp
    \/ HostRender

\* main() is one sequential program: a catch-up loop that has been entered goes on
\* to its next pass or to its exit.  A step of HostNext that is a HostLoopPass is a
\* HostCatchUp.
SpecHost == InitHost /\ [][HostNext]_vars /\ WF_host(HostLoopPass \/ HostCaughtUp)

\* the ticks the frame owed when it read the clock
Owed == (host.current_time - host.frame_last_tick_time) \div host.tick_interval

\* the frame is past its catch-up loop
CaughtUp == ~host.is_paused /\ (host.pc = "render" \/ (host.pc = "frame" /\ host.rendered = 1))

\* C30: in every frame that is not paused the host calls tick_all exactly
\* floor((now - last_tick_time) / tick_interval) times, the catch-up loop terminates,
\* after it now - last_tick_time < tick_interval, and render_all is called exactly once
\* per frame, after the ticks.
C30_HostCatchUp ==
    /\ [](CaughtUp => /\ host.ticked = Owed
                      /\ host.current_time - host.last_tick_time < host.tick_interval
                      /\ host.current_time - host.last_tick_time >= 0)
    /\ [](host.pc \in {"timing", "loop", "render"} => host.rendered = 0)
    /\ [][/\ ticks' # ticks => host.pc = "loop" /\ host'.ticked = host.ticked + 1
          /\ host'.ticked # host.ticked => host.pc = "frame" \/ ticks' = ticks + 1
          /\ host'.rendered # host.rendered =>
                 \/ host.pc = "frame" /\ host'.rendered = 0
                 \/ host.pc = "render" /\ host'.rendered = 1 /\ result'.op = "render_all"
          /\ host'.pc = "frame" => host.pc = "render" /\ host'.rendered = 1]_vars
    /\ (host.pc = "loop") ~> (host.pc = "render")

\* a frame that was not paused has caught up by two ticks and has rendered
C30_Witness ==
    /\ host.pc = "frame"
    /\ ~host.is_paused
    /\ host.rendered = 1
    /\ host.ticked = 2
    /\ Owed = 2
    /\ result.op = "render_all"

----------------------------------------------------------------------------
\* the stored occurrences of the current generation at minimal squared distance from
\* the point of the closest query that ran last, by their place in the iteration
Nearest ==
    LET objs == get_objects(Current)
    IN  {k \in 1..Len(objs) :
            \A j \in 1..Len(objs) :
                SquaredDistance(objs[k], result.args[1], result.args[2])
                    <= SquaredDistance(objs[j], result.args[1], result.args[2])}

\* C31: when several entities of the current generation are at the same minimal
\* squared distance from the query point, query_closest_object returns the one its
\* iteration over the current buffer meets first; a later one never replaces it.
C31_ClosestTieBreak ==
    (result.op = "query_closest_object" /\ result.obj # None) =>
        \E k \in Nearest :
            /\ result.obj = get_objects(Current)[k]
            /\ \A j \in Nearest : k <= j

\* two different entities are at the minimal distance and the first was returned
C31_Witness ==
    /\ result.op = "query_closest_object"
    /\ result.obj # None
    /\ \E j, k \in Nearest : get_objects(Current)[j] # get_objects(Current)[k]
    /\ result.obj = get_objects(Current)[1]

----------------------------------------------------------------------------
(* The life of a FoodObject: sessions long enough for its decay to run out *)

\* a FoodObject, and an entity within its interaction radius that stays
FoodLifeEntities ==
    {FoodObject(p) : p \in FoodPositions}
        \cup {ScriptedEntity(p, "self") : p \in ScriptedPositions}

\* tick_all from its first line to its last, no FoodObject growing (no update of
\* these sessions raises)
TickAll ==
    /\ pc = "idle"
    /\ ticks < MaxLifeTicks
    /\ LET cleared == [buffers EXCEPT ![(1 - current_buffer) + 1] = <<>>]
           r == RunTick(ent, cleared, current_buffer, partition_size,
                        get_objects(Current), 1)
       IN  /\ ent' = r.ent
           /\ buffers' = r.buffers
    /\ current_buffer' = 1 - current_buffer
    /\ ticks' = ticks + 1
    /\ calls' = <<>>
    /\ start_ent' = ent
    /\ result' = Result("tick_all", None, <<>>, <<>>, "none")
    /\ UNCHANGED <<host, partition_size, pc, it>>

\* a session of the host that fills the world before the first tick and then only
\* advances it
FoodLifeNext ==
    \/ \E new \in FoodLifeEntities : Construct(new)
    \/ \E obj \in 1..Len(ent) : ticks = 0 /\ add_object(obj)
    \/ TickAll

SpecFoodLife == Init /\ [][FoodLifeNext]_vars

\* the FoodObjects that the tick_all of this step updates, each stored once
FoodTicked ==
    {f \in Range(get_objects(Current)) :
        /\ ent[f].kind = "FoodObject"
        /\ ~ent[f].death
        /\ Count(get_objects(Current), f) = 1}

\* the decay a FoodObject gets to in this step, before the cap
Decayed(f) == ent[f].decay + decay_rate * (10 + ent'[f].neighbors)

\* a FoodObject's decay stays within max_decay, and it flags itself exactly in the tick
\* in which its decay would exceed max_decay
FoodCapped ==
    /\ [](\A f \in 1..Len(ent) : ent[f].decay <= max_decay * 10)
    /\ [][ticks' = ticks + 1 =>
             \A f \in FoodTicked : ent'[f].death <=> Decayed(f) > max_decay * 10]_vars

\* a FoodObject is gone from the world max_decay / decay_rate + 2 ticks after it was
\* created
FoodGone ==
    [](ticks >= (max_decay \div decay_rate) + 2 =>
           \A f \in Range(get_objects(Current)) : ent[f].kind # "FoodObject")

\* the claim as it is stated: every tick of a FoodObject increases its decay by at
\* least decay_rate, the tick that flags it included
C32_DecayGrowsEveryTick ==
    /\ [][ticks' = ticks + 1 =>
             \A f \in FoodTicked : ent'[f].decay >= ent[f].decay + decay_rate * 10]_vars
    /\ FoodCapped
    /\ FoodGone

\* C32: every tick of a FoodObject that does not flag it increases its decay by at
\* least decay_rate, and the tick that flags it leaves its decay at max_decay; its
\* decay never exceeds max_decay, it flags itself for death in the tick where its
\* decay would exceed max_decay, and it is absent from the world at most
\* max_decay / decay_rate + 2 ticks after its creation.
C32_FoodLifecycle ==
    /\ [][ticks' = ticks + 1 =>
             \A f \in FoodTicked :
                 IF ent'[f].death
                 THEN ent'[f].decay = max_decay * 10
                 ELSE ent'[f].decay >= ent[f].decay + decay_rate * 10]_vars
    /\ FoodCapped
    /\ FoodGone

\* a FoodObject without neighbors has lived as long as it can: the tick that made it
\* absent is the last one the bound allows
C32_Witness ==
    /\ ticks = (max_decay \div decay_rate) + 2
    /\ \E f \in Range(get_objects(Previous)) :
           /\ ent[f].kind = "FoodObject"
           /\ ent[f].death
           /\ ent[f].decay = max_decay * 10
           /\ ~Contains(get_objects(Current), f)

----------------------------------------------------------------------------
(* DefaultCell.calculate_angle_between_food, on the directions whose angle is a *)
(* whole number of degrees                                                     *)

\* math.degrees(math.atan2(dy, dx)) for dx, dy in -1..1
degrees_atan2(dy, dx) ==
    CASE dy = 0 /\ dx >= 0 -> 0
      [] dy = 0 /\ dx < 0 -> 180
      [] dy > 0 /\ dx > 0 -> 45
      [] dy > 0 /\ dx = 0 -> 90
      [] dy > 0 /\ dx < 0 -> 135
      [] dy < 0 /\ dx > 0 -> -45
      [] dy < 0 /\ dx = 0 -> -90
      [] dy < 0 /\ dx < 0 -> -135

calculate_angle_between_food(object_position, object_rotation, food_position) ==
    LET angle_to_food == degrees_atan2(food_position[2] - object_position[2],
                                       food_position[1] - object_position[1])
        angle_between == angle_to_food - object_rotation
    IN  IF angle_between > 180 THEN angle_between - 360
        ELSE IF angle_between < -180 THEN angle_between + 360
        ELSE angle_between

CalculateAngle(object_position, object_rotation, food_position) ==
    /\ pc = "idle"
    /\ result' = Result("calculate_angle_between_food", None,
                        <<object_position, object_rotation, food_position>>,
                        calculate_angle_between_food(object_position, object_rotation,
                                                     food_position),
                        "none")
    /\ calls' = <<>>
    /\ start_ent' = <<>>
    /\ UNCHANGED <<host, partition_size, buffers, current_buffer, ent, pc, it, ticks>>

\* a cell computing the angle to a food next to it, at any heading
AngleNext ==
    \E p \in AnglePositions, o \in AngleOffsets, r \in AngleRotations :
        CalculateAngle(p, r, <<p[1] + o[1], p[2] + o[2]>>)

SpecAngle == Init /\ [][AngleNext]_vars

\* C33: calculate_angle_between_food returns an angle between -180 and 180 degrees for
\* every object position, food position and object rotation, rotations outside
\* [-180, 180] included.
C33_AngleRange ==
    result.op = "calculate_angle_between_food" =>
        -180 <= result.value /\ result.value <= 180

----------------------------------------------------------------------------
\* ceil(a / b) for b > 0
CeilDiv(a, b) == -FloorDiv(-a, b)

\* the cells within n cells of the cell of (x, y) on each axis
CellsAround(x, y, n) ==
    {<<FloorDiv(x, partition_size) + dx, FloorDiv(y, partition_size) + dy>> :
         dx \in -n..n, dy \in -n..n}

\* C34: query_objects_within_radius(cx, cy, r) examines every cell within
\* ceil(r / partition_size) + 1 cells of the cell of (cx, cy) on each axis (a cell
\* without entities adding nothing to the result).
C34_RadiusCellSpan ==
    (result.op = "query_objects_within_radius" /\ result.raised = "none") =>
        CellsAround(result.args[1], result.args[2],
                    CeilDiv(result.args[3], partition_size) + 1)
            \subseteq Range(cells_to_check(partition_size, result.args[1], result.args[2],
                                           result.args[3]))

----------------------------------------------------------------------------
(* The last ticks of a FoodObject *)

\* a FoodObject that has been ticked max_decay / decay_rate times without neighbors
AgedFood(position) == [FoodObject(position) EXCEPT !.decay = max_decay * 10]

\* the world with that FoodObject alone in it: an even number of ticks has brought
\* buffer 0 back to be the current one, and buffer 1 holds the generation before
\* (ticks counts the calls of tick_all from here on)
InitAged ==
    /\ partition_size \in PartitionSizes
    /\ ent \in {<<AgedFood(p)>> : p \in FoodPositions}
    /\ buffers = <<InsertAll(<<>>, ent, partition_size, <<1>>),
                   InsertAll(<<>>, ent, partition_size, <<1>>)>>
    /\ current_buffer = 0
    /\ pc = "idle"
    /\ it = <<1, 1>>
    /\ calls = <<>>
    /\ start_ent = <<>>
    /\ ticks = 0
    /\ result = Result("tick_all", None, <<>>, <<>>, "none")
    /\ host = HostStart

\* a session of the host that goes on from there, with another entity or without
AgedNext ==
    \/ \E new \in {TestVelocityObject(p, v) : p \in VelocityPositions, v \in Velocities} :
           Construct(new)
    \/ \E obj \in 1..Len(ent) : add_object(obj)
    \/ TickBegin
    \/ \E rnd \in Randoms : TickVisit(rnd)
    \/ TickEnd
    \/ GetObjects

SpecAged == InitAged /\ [][AgedNext]_vars

\* the update calls of the tick just completed in which the entity flagged itself
SelfFlagged ==
    {i \in 1..Len(calls) :
        /\ ~start_ent[calls[i].obj].death
        /\ ent[calls[i].obj].death
        /\ calls[i].returns \in {"self", "list"}}

\* C35: an entity that sets its own death flag during its update and returns itself
\* is still inserted into the next generation, so that get_objects() holds it, flagged,
\* after that tick, together with the offspring it returned in that update; the tick
\* after that one removes it.
C35_SelfFlaggedStaysOneTick ==
    (pc = "idle" /\ result.op = "tick_all" /\ result.raised = "none" /\ ticks > 0) =>
        /\ \A i \in SelfFlagged :
               \A item \in Range(calls[i].items) :
                   Contains(get_objects(Current), item)
        /\ \A i \in SelfFlagged :
               /\ Contains(calls[i].items, calls[i].obj)
               /\ calls[i].list => Len(calls[i].items) = 2
        /\ \A obj \in 1..Len(start_ent) :
               start_ent[obj].death => ~Contains(get_objects(Current), obj)

\* a FoodObject flagged itself in the tick just completed and returned itself with an
\* offspring: both are in the world
C35_Witness ==
    /\ pc = "idle"
    /\ result.op = "tick_all"
    /\ result.raised = "none"
    /\ \E i \in SelfFlagged :
           /\ calls[i].list
           /\ ent[calls[i].obj].kind = "FoodObject"
           /\ Len(calls[i].items) = 2
           /\ \A item \in Range(calls[i].items) : Contains(get_objects(Current), item)

\* the tick after that has run: the flagged FoodObject is gone, its offspring is not
C35_WitnessRemoved ==
    /\ pc = "idle"
    /\ result.op = "tick_all"
    /\ result.raised = "none"
    /\ \E obj \in 1..Len(start_ent) :
           /\ start_ent[obj].death
           /\ Contains(get_objects(Previous), obj)
           /\ ~Contains(get_objects(Current), obj)
           /\ get_objects(Current) # <<>>

----------------------------------------------------------------------------
\* the tick just completed found every entity of its generation stored once and not
\* flagged, and every update returned exactly its entity
IdentityTick ==
    /\ pc = "idle"
    /\ result.op = "tick_all"
    /\ result.raised = "none"
    /\ ticks > 0
    /\ \A obj \in Range(get_objects(Previous)) :
           /\ Count(get_objects(Previous), obj) = 1
           /\ ~start_ent[obj].death
    /\ \A i \in 1..Len(calls) : calls[i].returns = "self"

\* C36: if every entity of the current generation is indexed once, has its death flag
\* clear and its update returns exactly itself, then after tick_all the current
\* generation holds exactly the same entities, each exactly once, also when entities
\* move to other cells.
C36_Conservation ==
    IdentityTick =>
        \A obj \in 1..Len(ent) :
            Count(get_objects(Current), obj) = Count(get_objects(Previous), obj)

\* such a tick with two entities, one of which it moved to another cell
C36_Witness ==
    /\ IdentityTick
    /\ Len(get_objects(Previous)) = 2
    /\ \E obj \in Range(get_objects(Current)) :
           _hash_position(start_ent[obj].position, partition_size)
               # _hash_position(ent[obj].position, partition_size)

----------------------------------------------------------------------------
(* Entities that move far in one update *)

\* a TestVelocityObject whose velocity attribute the host has set, and an entity that
\* stays where it is
FastEntities ==
    {DummyEntity(p) : p \in DummyPositions}
        \cup {TestVelocityObject(p, v) : p \in VelocityPositions, v \in FastVelocities}

FastNext ==
    \/ \E new \in FastEntities : Construct(new)
    \/ \E obj \in 1..Len(ent) : add_object(obj)
    \/ TickBegin
    \/ TickVisit(NoGrow)
    \/ TickEnd

SpecFast == Init /\ [][FastNext]_vars

\* C37: the self-removal step of tick_all never fails: for every entity with
\* can_interact set and interaction_radius >= 0 that tick_all visits, the radius query
\* at the entity's own position contains the entity, in every state reachable by
\* add_object and tick_all.
C37_SelfRemovalNeverFails ==
    result.op = "tick_all" => result.raised # "ValueError"

----------------------------------------------------------------------------
\* the frame is the first one that is not paused after a paused one, and has read
\* the clock
Resuming == ~host.is_paused /\ host.resumed /\ host.pc \in {"loop", "render"}

\* C38: in every frame in which the host is paused tick_all is not called and
\* last_tick_time is reset to the present, so that on resuming no backlog of ticks is
\* run: the first frame that is not paused runs at most
\* floor(frame duration / tick_interval) ticks.
C38_PauseLeavesNoBacklog ==
    /\ []((host.is_paused /\ host.pc = "render") =>
              host.last_tick_time = host.now /\ host.ticked = 0)
    /\ [][ticks' # ticks => ~host.is_paused /\ ~host'.is_paused]_vars
    /\ [](Resuming =>
              host.ticked <= (host.current_time - host.previous_time) \div host.tick_interval)

\* the host resumed after a pause in which the time of a tick went by: the frame has
\* run the one tick its own duration owed, the only one of the session
C38_Witness ==
    /\ Resuming
    /\ host.pc = "render"
    /\ host.tick_interval = TimePerSecond \div DEFAULT_TPS
    /\ host.previous_time >= host.tick_interval
    /\ host.current_time - host.previous_time = host.tick_interval
    /\ host.ticked = 1
    /\ ticks = 1

====
